---- MODULE Spec2Model ----
(***************************************************************************)
(* Model of ETL_Pipeline/src/application/etl_pipeline.py: the task        *)
(* service (create/read/update/delete/start/stop of ETL tasks), the       *)
(* module globals SCHEDULER_RUNNING and SCHEDULED_JOBS, the job list of    *)
(* the `schedule` tick engine and the run_scheduler loop threads.          *)
(*                                                                         *)
(* Each endpoint function is an operator from a program state (a record    *)
(* of the globals) to an outcome: the state on return, the response and    *)
(* whether an exception left the function.  Calls between endpoint         *)
(* functions (create_task -> start_scheduler -> start_tasks, create_task   *)
(* -> delete_task -> stop_task) are operator applications, so an action    *)
(* is one whole request.  Requests are served one at a time; the loop      *)
(* thread's steps interleave with them.                                    *)
(*                                                                         *)
(* ETLDataBaseManager, ETLTask and base64decode_obj are imported by the    *)
(* file and not part of it; they follow their documented contract.  The    *)
(* store raises only the contract's errors (duplicate name, unknown name,  *)
(* invalid value); I/O faults of sqlite are outside the model.             *)
(***************************************************************************)
EXTENDS Integers, FiniteSets, Sequences, TLC

\* ------------------------------------------------------------------ bounds
Names == {"a", "b"}

\* cap on the num_runs counter of a row
MaxRuns == 1

\* cap on the number of run_scheduler threads alive at once
MaxThreads == 2

\* ---------------------------------------------------------------- helpers
Put(f, k, v) == [x \in (DOMAIN f) \cup {k} |-> IF x = k THEN v ELSE f[x]]

Remove(f, k) == [x \in (DOMAIN f) \ {k} |-> f[x]]

Range(f) == {f[x] : x \in DOMAIN f}

EmptyMap == [x \in {} |-> 0]

\* a timestamp column that was never written
Null == "null"

\* a timestamp column written by a completed run
Stamp == "set"

\* the name slot of a response to a request that carried no usable name
NoName == "-"

NoErr == ""

\* ------------------------------------------------------------ ETL tasks
\* repeat_time_unit values the tick engine can register
ValidUnits == {"seconds", "minutes", "hours", "days", "weeks"}

\* units a caller puts into a task; the second is not a unit of the engine
InputUnits == {"hours", "fortnights"}

\* a task object as built by a caller (before it has run)
ETLTask(n, u, i) ==
    [name |-> n, repeat_time_unit |-> u, repeat_interval |-> i,
     time_run_last_start |-> Null, time_run_last_end |-> Null,
     num_runs |-> 0, status |-> "scheduled"]

\* the task_str of a request: the encoding of a task object, or bytes that
\* are no encoding of anything
Garbage == <<"garbage">>

base64encode_obj(task) == <<"b64", task>>

IsEncoding(task_str) == Len(task_str) = 2 /\ task_str[1] = "b64"

\* base64decode_obj: the decoded object, or a raised error
base64decode_obj(task_str) ==
    IF IsEncoding(task_str)
    THEN [ok |-> TRUE, task |-> task_str[2], err |-> NoErr]
    ELSE [ok |-> FALSE, task |-> ETLTask(NoName, "hours", 1), err |-> "DecodeError"]

TaskStrs ==
    {Garbage} \cup {base64encode_obj(ETLTask(n, u, 1)) : n \in Names, u \in InputUnits}

\* ------------------------------------------------------------ Task Store
\* ETLDataBaseManager: rows keyed by name.  Each operation returns the new
\* table, or the error it raises with the table untouched.
Row(task) ==
    [repeat_time_unit |-> task.repeat_time_unit,
     repeat_interval |-> task.repeat_interval,
     time_run_last_start |-> task.time_run_last_start,
     time_run_last_end |-> task.time_run_last_end,
     num_runs |-> task.num_runs,
     status |-> task.status]

DbCreate(db, task) ==
    IF task.name \in DOMAIN db
    THEN [ok |-> FALSE, db |-> db, err |-> "DuplicateNameError"]
    ELSE [ok |-> TRUE, db |-> Put(db, task.name, Row(task)), err |-> NoErr]

DbRead(db, name) ==
    IF name \in DOMAIN db
    THEN [ok |-> TRUE, db |-> db, err |-> NoErr]
    ELSE [ok |-> FALSE, db |-> db, err |-> "NotFoundError"]

\* names of the rows matching an equality filter (load_tasks)
DbLoadStatus(db, st) == {n \in DOMAIN db : db[n].status = st}

DbLoadName(db, name) == {n \in DOMAIN db : n = name}

\* the partial updates requests carry: a field and its new value
NewValues ==
    {[field |-> "status", value |-> "scheduled"],
     [field |-> "status", value |-> "stopped"],
     [field |-> "repeat_interval", value |-> 0],
     [field |-> "num_runs", value |-> 0]}

ValidValue(nv) ==
    CASE nv.field = "status" -> nv.value \in {"scheduled", "stopped"}
      [] nv.field = "repeat_interval" -> nv.value > 0
      [] nv.field = "num_runs" -> nv.value >= 0
      [] OTHER -> FALSE

ApplyValue(row, nv) ==
    CASE nv.field = "status" -> [row EXCEPT !.status = nv.value]
      [] nv.field = "repeat_interval" -> [row EXCEPT !.repeat_interval = nv.value]
      [] nv.field = "num_runs" -> [row EXCEPT !.num_runs = nv.value]
      [] OTHER -> row

DbUpdate(db, name, nv) ==
    IF name \notin DOMAIN db
    THEN [ok |-> FALSE, db |-> db, err |-> "NotFoundError"]
    ELSE IF ~ValidValue(nv)
    THEN [ok |-> FALSE, db |-> db, err |-> "ValidationError"]
    ELSE [ok |-> TRUE, db |-> Put(db, name, ApplyValue(db[name], nv)), err |-> NoErr]

DbDelete(db, name) ==
    IF name \in DOMAIN db
    THEN [ok |-> TRUE, db |-> Remove(db, name), err |-> NoErr]
    ELSE [ok |-> FALSE, db |-> db, err |-> "NotFoundError"]

\* ----------------------------------------------------------- tick engine
\* The engine's job list is a set of job objects [id, name]: the id tells
\* apart the job objects made for one name.  SCHEDULED_JOBS[n] only ever
\* holds a job made for n.  A new job object takes the lowest id that no
\* job object of the name still in use carries.
UsedIds(s, name) ==
    {j.id : j \in {k \in s.jobs : k.name = name}}
        \cup (IF name \in DOMAIN s.reg THEN {s.reg[name].id} ELSE {})

FreshId(s, name) == CHOOSE i \in 0 .. Cardinality(UsedIds(s, name)) :
    /\ i \notin UsedIds(s, name)
    /\ \A k \in 0 .. i : k < i => k \in UsedIds(s, name)

\* Job objects are told apart only by identity, so the ids of a name's job
\* objects are renumbered after each request: the listed jobs take
\* 0 .. k-1 in order, an unlisted job held by SCHEDULED_JOBS takes k.
Rank(id, ids) == Cardinality({x \in ids : x < id})

LiveIds(js, name) == {j.id : j \in {k \in js : k.name = name}}

Canon(s) ==
    [s EXCEPT
       !.jobs = {[id |-> Rank(j.id, LiveIds(s.jobs, j.name)), name |-> j.name] :
                    j \in s.jobs},
       !.reg = [n \in DOMAIN s.reg |->
                  [id |-> IF s.reg[n] \in s.jobs
                          THEN Rank(s.reg[n].id, LiveIds(s.jobs, n))
                          ELSE Cardinality(LiveIds(s.jobs, n)),
                   name |-> n]]]

\* schedule.cancel_job: drops the job from the list; a job that is not
\* listed is ignored
cancel_job(jobs, job) == jobs \ {job}

\* ETLTask.schedule adding a job next to the one the name already has
TaskSchedule_Append(s, name, unit) ==
    IF unit \notin ValidUnits
    THEN [ok |-> FALSE, s |-> s, job |-> [id |-> 0, name |-> name],
          err |-> "SchedulingError"]
    ELSE LET job == [id |-> FreshId(s, name), name |-> name]
         IN [ok |-> TRUE, s |-> [s EXCEPT !.jobs = s.jobs \cup {job}],
             job |-> job, err |-> NoErr]

\* ETLTask.schedule: registers the task's periodic run and returns the
\* handle; a registration of a name replaces the one the name had.  A unit
\* the engine does not know raises.
TaskSchedule(s, name, unit) ==
    IF unit \notin ValidUnits
    THEN [ok |-> FALSE, s |-> s, job |-> [id |-> 0, name |-> name],
          err |-> "SchedulingError"]
    ELSE LET job == [id |-> FreshId(s, name), name |-> name]
         IN [ok |-> TRUE,
             s |-> [s EXCEPT !.jobs = {j \in s.jobs : j.name # name} \cup {job}],
             job |-> job, err |-> NoErr]

\* --------------------------------------------------------- program state
VARIABLES
    DB,                 \* the rows of the Task Store behind DB_MANAGER
    SCHEDULED_JOBS,     \* the module global: task name -> job handle
    jobs,               \* schedule.jobs, the tick engine's registrations
    SCHEDULER_RUNNING,  \* the module global flag
    threads,            \* run_scheduler threads alive, counted by position
    response,           \* outcome of the request the last step served
    pre,                \* what that request found for the name it carried
    starting            \* a start_scheduler call is between lines 271 and 272

vars ==
    <<DB, SCHEDULED_JOBS, jobs, SCHEDULER_RUNNING, threads, response, pre,
      starting>>

\* positions of a run_scheduler thread: at the while test, or in the loop
\* body (run_pending, then the sleep)
Pcs == {"test", "body"}

Alive(t) == t["test"] + t["body"]

\* the globals as one value, the argument of the endpoint operators
State ==
    [db |-> DB, reg |-> SCHEDULED_JOBS, jobs |-> jobs,
     running |-> SCHEDULER_RUNNING, threads |-> threads]

\* what an endpoint function leaves behind: the state, and either the
\* response dict it returns or the exception that left it
Ret(s, status, message, err, data) ==
    [s |-> s, status |-> status, raised |-> FALSE, message |-> message,
     err |-> err, data |-> data]

Raise(s, err) ==
    [s |-> s, status |-> 0, raised |-> TRUE, message |-> "", err |-> err,
     data |-> {}]

\* ------------------------------------------------------ endpoint functions
RECURSIVE ScheduleAll(_, _)
\* the loop `for task in ...: task.schedule(...)`: stops at the first raise
ScheduleAll(s, names) ==
    IF names = {} THEN [ok |-> TRUE, s |-> s, err |-> NoErr]
    ELSE LET n == CHOOSE x \in names : TRUE
             r == TaskSchedule(s, n, s.db[n].repeat_time_unit)
         IN IF r.ok THEN ScheduleAll(r.s, names \ {n})
            ELSE [ok |-> FALSE, s |-> r.s, err |-> r.err]

RECURSIVE start_tasks(_), start_scheduler(_)
start_tasks(s) ==
    LET s1 == IF s.running = FALSE THEN start_scheduler(s).s ELSE s
    IN ScheduleAll(s1, DbLoadStatus(s1.db, "scheduled"))

\* start_scheduler without the test of line 265
start_scheduler_NoGuard(s) ==
    LET s1 == [s EXCEPT !.running = TRUE, !.threads["test"] = @ + 1]
        r == start_tasks(s1)
    IN IF r.ok THEN Ret(r.s, 200, "Scheduler started.", NoErr, {})
       ELSE Ret(r.s, 400, "Failure", r.err, {})

start_scheduler(s) ==
    IF s.running = TRUE
    THEN Ret(s, 200, "Scheduler is already running.", NoErr, {})
    ELSE LET s1 == [s EXCEPT !.running = TRUE,
                             !.threads["test"] = @ + 1]
             r == start_tasks(s1)
         IN IF r.ok THEN Ret(r.s, 200, "Scheduler started.", NoErr, {})
            ELSE Ret(r.s, 400, "Failure", r.err, {})

stop_scheduler(s) ==
    IF s.running = FALSE
    THEN Ret(s, 200, "Scheduler is not running.", NoErr, {})
    ELSE Ret([s EXCEPT !.running = FALSE], 200, "Scheduler stopped.", NoErr, {})

\* stop_task with the status write of line 248 outside the `if` of line 246
stop_task_Always(s, task_name) ==
    LET s1 == IF task_name \in DOMAIN s.reg
              THEN [s EXCEPT !.jobs = cancel_job(s.jobs, s.reg[task_name])]
              ELSE s
        u == DbUpdate(s1.db, task_name,
                      [field |-> "status", value |-> "stopped"])
    IN IF u.ok
       THEN Ret([s1 EXCEPT !.db = u.db], 200, "Success", NoErr, {})
       ELSE Ret(s1, 400, "Success", u.err, {})

\* stop_task without the status write of line 248
stop_task_CancelOnly(s, task_name) ==
    IF task_name \in DOMAIN s.reg
    THEN Ret([s EXCEPT !.jobs = cancel_job(s.jobs, s.reg[task_name])],
             200, "Success", NoErr, {})
    ELSE Ret(s, 200, "Success", NoErr, {})

stop_task(s, task_name) ==
    IF task_name \in DOMAIN s.reg
    THEN LET s1 == [s EXCEPT !.jobs = cancel_job(s.jobs, s.reg[task_name])]
             u == DbUpdate(s1.db, task_name,
                           [field |-> "status", value |-> "stopped"])
         IN IF u.ok
            THEN Ret([s1 EXCEPT !.db = u.db], 200, "Success", NoErr, {})
            ELSE Ret(s1, 400, "Success", u.err, {})
    ELSE Ret(s, 200, "Success", NoErr, {})

\* delete_task with lines 148 and 149 in the other order
delete_task_DelFirst(s, task_name) ==
    LET s1 == stop_task(s, task_name).s
    IN IF task_name \notin DOMAIN s1.reg
       THEN Ret(s1, 400, "Success", "KeyError", {})
       ELSE LET s2 == [s1 EXCEPT !.reg = Remove(s1.reg, task_name)]
                d == DbDelete(s2.db, task_name)
            IN IF ~d.ok THEN Ret(s2, 400, "Success", d.err, {})
               ELSE Ret([s2 EXCEPT !.db = d.db], 200, "Success", NoErr, {})

delete_task(s, task_name) ==
    LET s1 == stop_task(s, task_name).s
        d == DbDelete(s1.db, task_name)
    IN IF ~d.ok THEN Ret(s1, 400, "Success", d.err, {})
       ELSE LET s2 == [s1 EXCEPT !.db = d.db]
            IN IF task_name \notin DOMAIN s2.reg
               THEN Ret(s2, 400, "Success", "KeyError", {})
               ELSE Ret([s2 EXCEPT !.reg = Remove(s2.reg, task_name)],
                        200, "Success", NoErr, {})

\* the except clause without the delete_task call of line 131
CreateFailed_NoRollback(s, task, e) == Ret(s, 400, "Failure", e, {})

\* the except clause of create_task once `task` is bound
CreateFailed(s, task, e) ==
    Ret(delete_task(s, task.name).s, 400, "Failure", e, {})

create_task(s, task_str) ==
    LET s1 == IF s.running = FALSE THEN start_scheduler(s).s ELSE s
        d == base64decode_obj(task_str)
    IN IF ~d.ok
       \* the except clause evaluates task.name with `task` never assigned
       THEN Raise(s1, "UnboundLocalError")
       ELSE LET task == d.task
                c == DbCreate(s1.db, task)
            IN IF ~c.ok THEN CreateFailed(s1, task, c.err)
               ELSE LET s2 == [s1 EXCEPT !.db = c.db]
                        j == TaskSchedule(s2, task.name, task.repeat_time_unit)
                    IN IF ~j.ok THEN CreateFailed(j.s, task, j.err)
                       ELSE Ret([j.s EXCEPT !.reg = Put(j.s.reg, task.name, j.job)],
                                200, "Success", NoErr, {})

RowView(db, n) == [name |-> n, status |-> db[n].status, num_runs |-> db[n].num_runs]

read_task(s, task_name) ==
    LET r == DbRead(s.db, task_name)
    IN IF r.ok THEN Ret(s, 200, "Success", NoErr, {RowView(s.db, task_name)})
       ELSE Ret(s, 400, "Failure", r.err, {})

read_all_tasks(s) ==
    Ret(s, 200, "Success", NoErr, {RowView(s.db, n) : n \in DOMAIN s.db})

\* update_task that treats a status of stopped as a stop request
update_task_Reschedules(s, task_name, new_values) ==
    LET u == DbUpdate(s.db, task_name, new_values)
        s1 == IF new_values.field = "status" /\ new_values.value = "stopped"
              THEN [s EXCEPT !.jobs = {j \in s.jobs : j.name # task_name}]
              ELSE s
    IN IF u.ok THEN Ret([s1 EXCEPT !.db = u.db], 200, "Success", NoErr, {})
       ELSE Ret(s, 400, "Failure", u.err, {})

update_task(s, task_name, new_values) ==
    LET u == DbUpdate(s.db, task_name, new_values)
    IN IF u.ok THEN Ret([s EXCEPT !.db = u.db], 200, "Success", NoErr, {})
       ELSE Ret(s, 400, "Failure", u.err, {})

start_task(s, task_name) ==
    LET s1 == IF s.running = FALSE THEN start_scheduler(s).s ELSE s
        r == ScheduleAll(s1, {n \in DbLoadName(s1.db, task_name) :
                                  s1.db[n].status = "stopped"})
    IN IF r.ok THEN Ret(r.s, 200, "Success", NoErr, {})
       ELSE Ret(r.s, 400, "Failure", r.err, {})

\* ----------------------------------------------------------------- actions
\* the response slot while no request has been served by the last step
Idle ==
    [op |-> "none", name |-> NoName, status |-> 0, raised |-> FALSE,
     message |-> "", err |-> NoErr, data |-> {}]

\* the jobs of a name that the engine will fire
Live(js, n) == {j \in js : j.name = n}

\* what a request for `name` finds on arrival: the row's status ("none"
\* without a row), whether SCHEDULED_JOBS has the name, whether the engine
\* has a job of the name, and the flag
Snapshot(s, name) ==
    [row |-> IF name \in DOMAIN s.db THEN s.db[name].status ELSE "none",
     reg |-> name \in DOMAIN s.reg,
     live |-> Live(s.jobs, name) # {},
     running |-> s.running]

NoSnapshot == [row |-> "none", reg |-> FALSE, live |-> FALSE, running |-> FALSE]

\* rows a previous run of the service left in the database file
StoredRow(st) == [Row(ETLTask(NoName, "hours", 1)) EXCEPT !.status = st]

StoredTables ==
    UNION {[D -> {StoredRow("scheduled"), StoredRow("stopped")}] : D \in SUBSET Names}

\* process start: the globals as lines 19-24 set them, no thread, and
\* whatever the database file holds
Init ==
    /\ DB \in StoredTables
    /\ SCHEDULED_JOBS = EmptyMap
    /\ jobs = {}
    /\ SCHEDULER_RUNNING = FALSE
    /\ threads = [p \in Pcs |-> 0]
    /\ response = Idle
    /\ pre = NoSnapshot
    /\ starting = FALSE

\* a request that would start the scheduler needs room for its thread
CanLaunch == SCHEDULER_RUNNING \/ Alive(threads) < MaxThreads

\* the last step served a request (it was no step of a loop thread)
IsRequest == response.op \notin {"none", "run_pending", "run_scheduler_return"}

\* one request served: the globals become the outcome's state.  Requests are
\* served one after the other: the previous response has been handed over
Serve(op, name, out) ==
    /\ ~IsRequest
    /\ DB' = out.s.db
    /\ SCHEDULED_JOBS' = Canon(out.s).reg
    /\ jobs' = Canon(out.s).jobs
    /\ SCHEDULER_RUNNING' = out.s.running
    /\ threads' = out.s.threads
    /\ response' = [op |-> op, name |-> name, status |-> out.status,
                    raised |-> out.raised, message |-> out.message,
                    err |-> out.err, data |-> out.data]
    /\ pre' = Snapshot(State, name)
    /\ starting' = starting

NameOf(task_str) == IF IsEncoding(task_str) THEN task_str[2].name ELSE NoName

CreateTask ==
    \E task_str \in TaskStrs :
        /\ CanLaunch
        /\ Serve("create_task", NameOf(task_str), create_task(State, task_str))

DeleteTask ==
    \E n \in Names : Serve("delete_task", n, delete_task(State, n))

ReadTask ==
    \E n \in Names : Serve("read_task", n, read_task(State, n))

ReadAllTasks == Serve("read_all_tasks", NoName, read_all_tasks(State))

UpdateTask ==
    \E n \in Names, nv \in NewValues :
        Serve("update_task", n, update_task(State, n, nv))

StopTask ==
    \E n \in Names : Serve("stop_task", n, stop_task(State, n))

StartTask ==
    \E n \in Names :
        /\ CanLaunch
        /\ Serve("start_task", n, start_task(State, n))

StartScheduler ==
    /\ CanLaunch
    /\ Serve("start_scheduler", NoName, start_scheduler(State))

StopScheduler == Serve("stop_scheduler", NoName, stop_scheduler(State))

\* `return response`: the served request's result goes to the caller, and
\* the response slot is free for the next request
Respond ==
    /\ IsRequest
    /\ response' = Idle
    /\ pre' = NoSnapshot
    /\ UNCHANGED <<DB, SCHEDULED_JOBS, jobs, SCHEDULER_RUNNING, threads, starting>>

\* ------------------------------------------------------------ loop thread
\* a step of a run_scheduler thread serves no request; the response slot
\* tells what the thread did: "none" (entered the loop body),
\* "run_scheduler_return" (left the loop) or "run_pending", with
\* CallbackError when a callback of that tick failed
ThreadStep(op, err) ==
    /\ response' = [Idle EXCEPT !.op = op, !.err = err]
    /\ pre' = NoSnapshot
    /\ starting' = starting

Move(t, from, to) == [t EXCEPT ![from] = @ - 1, ![to] = @ + 1]

\* `while SCHEDULER_RUNNING == True`: enter the body, or return
LoopTest ==
    /\ threads["test"] > 0
    /\ threads' = IF SCHEDULER_RUNNING = TRUE
                  THEN Move(threads, "test", "body")
                  ELSE [threads EXCEPT !["test"] = @ - 1]
    /\ UNCHANGED <<DB, SCHEDULED_JOBS, jobs, SCHEDULER_RUNNING>>
    /\ ThreadStep(IF SCHEDULER_RUNNING = TRUE THEN "none"
                  ELSE "run_scheduler_return", NoErr)

\* how many of the due jobs belong to a name
DueCount(due, n) == Cardinality(Live(due, n))

\* the run-completion write of the callbacks that completed
RunCompleted(db, due) ==
    [n \in DOMAIN db |->
        IF DueCount(due, n) = 0 THEN db[n]
        ELSE [db[n] EXCEPT !.num_runs = @ + DueCount(due, n),
                           !.time_run_last_start = Stamp,
                           !.time_run_last_end = Stamp]]

\* the ways a tick can go: the jobs that are due, and those of them whose
\* callback fails (load or save raises, or the row to write is gone).  A
\* failure is caught and logged inside the callback of that task.
Ticks ==
    {t \in [due : SUBSET jobs, failed : SUBSET jobs] :
        /\ t.failed \subseteq t.due
        /\ \A j \in t.due : j.name \notin DOMAIN DB => j \in t.failed
        /\ \A n \in DOMAIN DB :
              DB[n].num_runs + DueCount(t.due \ t.failed, n) <= MaxRuns}

TickErr(t) == IF t.failed = {} THEN NoErr ELSE "CallbackError"

\* the loop body with a failure of a callback leaving run_pending and
\* ending the thread
LoopRunPending_Propagates ==
    /\ threads["body"] > 0
    /\ \E t \in Ticks :
        /\ DB' = RunCompleted(DB, t.due \ t.failed)
        /\ threads' = IF t.failed = {} THEN Move(threads, "body", "test")
                      ELSE [threads EXCEPT !["body"] = @ - 1]
        /\ ThreadStep("run_pending", TickErr(t))
    /\ UNCHANGED <<SCHEDULED_JOBS, jobs, SCHEDULER_RUNNING>>

\* the loop body: schedule.run_pending() fires the jobs whose period has
\* elapsed, then time.sleep(1)
LoopRunPending ==
    /\ threads["body"] > 0
    /\ \E t \in Ticks :
        /\ DB' = RunCompleted(DB, t.due \ t.failed)
        /\ ThreadStep("run_pending", TickErr(t))
    /\ threads' = Move(threads, "body", "test")
    /\ UNCHANGED <<SCHEDULED_JOBS, jobs, SCHEDULER_RUNNING>>

Next ==
    \/ CreateTask
    \/ DeleteTask
    \/ ReadTask
    \/ ReadAllTasks
    \/ UpdateTask
    \/ StopTask
    \/ StartTask
    \/ StartScheduler
    \/ StopScheduler
    \/ Respond
    \/ LoopTest
    \/ LoopRunPending

Spec == Init /\ [][Next]_vars

\* ------------------------------------------- start_scheduler, step by step
\* start_scheduler found the flag false: lines 270-271 set it and start the
\* loop thread; the call has not returned yet
StartLaunch ==
    /\ ~IsRequest
    /\ SCHEDULER_RUNNING = FALSE
    /\ starting = FALSE
    /\ Alive(threads) < MaxThreads
    /\ SCHEDULER_RUNNING' = TRUE
    /\ threads' = [threads EXCEPT !["test"] = @ + 1]
    /\ starting' = TRUE
    /\ response' = Idle
    /\ pre' = NoSnapshot
    /\ UNCHANGED <<DB, SCHEDULED_JOBS, jobs>>

\* the rest of that call: start_tasks() of line 272, then the return.  If
\* the flag was cleared in between, start_tasks calls start_scheduler again
\* (lines 105-106).
StartRecover ==
    /\ starting = TRUE
    /\ CanLaunch
    /\ LET r == start_tasks(State)
           out == IF r.ok THEN Ret(r.s, 200, "Scheduler started.", NoErr, {})
                  ELSE Ret(r.s, 400, "Failure", r.err, {})
       IN /\ DB' = out.s.db
          /\ SCHEDULED_JOBS' = Canon(out.s).reg
          /\ jobs' = Canon(out.s).jobs
          /\ SCHEDULER_RUNNING' = out.s.running
          /\ threads' = out.s.threads
          /\ response' = [Idle EXCEPT !.op = "start_scheduler",
                                      !.status = out.status,
                                      !.message = out.message,
                                      !.err = out.err]
    /\ pre' = NoSnapshot
    /\ starting' = FALSE

\* the scheduler's own operations and its loop, with the loop thread free to
\* run between the two halves of start_scheduler
CoordinatorNext ==
    \/ StartLaunch
    \/ StartRecover
    \/ StopScheduler
    \/ Respond
    \/ LoopTest
    \/ LoopRunPending

CoordinatorSpec == Init /\ [][CoordinatorNext]_vars

\* a started thread keeps being scheduled by the interpreter: each of its
\* steps that stays possible is taken
FairCoordinatorSpec ==
    /\ CoordinatorSpec
    /\ WF_vars(LoopTest)
    /\ WF_vars(LoopRunPending)

\* ------------------------------------------------------------------ claims
\* the last step served request `op` for task name n
Served(op, n) == response.op = op /\ response.name = n

\* C1: create_task of a name that already has a row returns a failure result
\* and leaves that task's row, its SCHEDULED_JOBS entry and its engine
\* registration as they were.
C1_DuplicateCreateKeepsTask ==
    [][\A n \in Names :
        (response'.op = "create_task" /\ response'.name = n /\ n \in DOMAIN DB)
        => /\ response'.raised = FALSE
           /\ response'.status = 400
           /\ n \in DOMAIN DB' /\ DB'[n] = DB[n]
           /\ (n \in DOMAIN SCHEDULED_JOBS') = (n \in DOMAIN SCHEDULED_JOBS)
           /\ Cardinality(Live(jobs', n)) = Cardinality(Live(jobs, n))]_vars

\* C2: between requests, SCHEDULED_JOBS has a name exactly when the row of
\* the name has status scheduled and SCHEDULER_RUNNING is true.
C2_RegistryIffScheduledAndRunning ==
    \A n \in Names :
        (n \in DOMAIN SCHEDULED_JOBS)
        <=> (n \in DOMAIN DB /\ DB[n].status = "scheduled" /\ SCHEDULER_RUNNING)

\* a process that has served nothing that touched the scheduler
FreshProcess ==
    /\ SCHEDULER_RUNNING = FALSE
    /\ SCHEDULED_JOBS = EmptyMap
    /\ jobs = {}
    /\ Alive(threads) = 0

\* C3: start_scheduler in a fresh process leaves in SCHEDULED_JOBS exactly
\* the names whose row has status scheduled.
C3_RecoveryFillsRegistry ==
    [][(FreshProcess /\ response'.op = "start_scheduler")
        => DOMAIN SCHEDULED_JOBS' = DbLoadStatus(DB', "scheduled")]_vars

\* C4: after delete_task(n) of a name that had a row, whatever its status
\* and with or without a SCHEDULED_JOBS entry, the row is gone and
\* read_task(n) returns a failure result.
C4_DeleteRemovesRow ==
    \A n \in Names :
        (Served("delete_task", n) /\ pre.row # "none")
        => /\ n \notin DOMAIN DB
           /\ read_task(State, n).raised = FALSE
           /\ read_task(State, n).status = 400

\* C4 witness: a delete of a scheduled task that SCHEDULED_JOBS did not hold
C4_Witness ==
    \E n \in Names :
        /\ Served("delete_task", n)
        /\ pre.row = "scheduled" /\ ~pre.reg
        /\ n \notin DOMAIN DB

\* C5: after delete_task(n) of a name that had a row, neither a
\* SCHEDULED_JOBS entry nor an engine registration of n remains.
C5_DeleteRemovesRegistration ==
    \A n \in Names :
        (Served("delete_task", n) /\ pre.row # "none")
        => (n \notin DOMAIN SCHEDULED_JOBS /\ Live(jobs, n) = {})

\* what a second stop_task(n) right after the first one does
StopAgain(n) == stop_task(State, n)

SecondStopChangesNothing(n) ==
    /\ StopAgain(n).raised = FALSE
    /\ StopAgain(n).status = 200
    /\ StopAgain(n).err = NoErr
    /\ Canon(StopAgain(n).s) = State
    /\ n \in DOMAIN DB /\ DB[n].status = "stopped"

\* C6 as stated: for every name whose row has status scheduled, stop_task(n)
\* leaves status stopped, and a second stop_task(n) returns 200 without an
\* error and changes nothing.
C6_StopTwiceAnyScheduled ==
    \A n \in Names :
        (Served("stop_task", n) /\ pre.row = "scheduled")
        => SecondStopChangesNothing(n)

\* C6 amended: the same for every name whose row has status scheduled and
\* that SCHEDULED_JOBS holds.
C6_StopTwiceRegistered ==
    \A n \in Names :
        (Served("stop_task", n) /\ pre.row = "scheduled" /\ pre.reg)
        => SecondStopChangesNothing(n)

\* C6 witness: stop_task has stopped a scheduled task that had a live job
C6_Witness ==
    \E n \in Names :
        /\ Served("stop_task", n)
        /\ pre.row = "scheduled" /\ pre.reg /\ pre.live
        /\ DB[n].status = "stopped"

\* C7: stop_task(n) with a SCHEDULED_JOBS entry for n leaves no engine
\* registration of n, no SCHEDULED_JOBS entry for n, and status stopped.
C7_StopUnregisters ==
    \A n \in Names :
        (Served("stop_task", n) /\ pre.reg)
        => /\ Live(jobs, n) = {}
           /\ n \notin DOMAIN SCHEDULED_JOBS
           /\ n \in DOMAIN DB /\ DB[n].status = "stopped"

\* C8: for a task made by create_task (only create_task writes
\* SCHEDULED_JOBS), stop_task(n) followed by start_task(n) leaves status
\* scheduled, a SCHEDULED_JOBS entry and an engine registration.
C8_StartAfterStopRestores ==
    \A n \in Names :
        (Served("stop_task", n) /\ pre.reg /\ pre.row # "none")
        => LET after == start_task(State, n).s
           IN /\ n \in DOMAIN after.db /\ after.db[n].status = "scheduled"
              /\ n \in DOMAIN after.reg
              /\ Live(after.jobs, n) # {}

\* C9: no request lets an exception out, and a request beneath which a step
\* failed returns status 400.
C9_FailureResultNeverRaises ==
    IsRequest =>
        /\ response.raised = FALSE
        /\ response.err # NoErr => response.status = 400

\* the requests C10 is about: a decodable task with a new name and a unit
\* the engine rejects
RollbackInputs ==
    {ts \in TaskStrs : IsEncoding(ts) /\ NameOf(ts) \notin DOMAIN DB
                        /\ ts[2].repeat_time_unit \notin ValidUnits}

\* C10: when the row of a new task is written and scheduling then fails,
\* create_task returns 400 naming the scheduling error, with no row and no
\* SCHEDULED_JOBS entry for the name left.
C10_CreateRollsBack ==
    /\ \A ts \in RollbackInputs :
        LET out == create_task(State, ts)
        IN /\ out.raised = FALSE
           /\ out.status = 400
           /\ out.err = "SchedulingError"
           /\ NameOf(ts) \notin DOMAIN out.s.db
           /\ NameOf(ts) \notin DOMAIN out.s.reg
    /\ \A n \in Names :
        (Served("create_task", n) /\ response.err = "SchedulingError")
        => (n \notin DOMAIN DB /\ n \notin DOMAIN SCHEDULED_JOBS
            /\ response.status = 400)

\* C10 witness: a create_task whose scheduling failed after the row of a
\* new name was written
C10_Witness ==
    \E n \in Names :
        /\ Served("create_task", n)
        /\ pre.row = "none"
        /\ response.err = "SchedulingError"
        /\ response.status = 400

SameProgramState ==
    UNCHANGED <<DB, SCHEDULED_JOBS, jobs, SCHEDULER_RUNNING, threads>>

\* C13: the scheduler starts out stopped; start_scheduler while the flag is
\* true and stop_scheduler while it is false return 200 and change neither
\* the flag, SCHEDULED_JOBS, the engine's jobs, the Store nor the threads.
C13_LifecycleIdempotent ==
    /\ SCHEDULER_RUNNING = FALSE
    /\ [][(\/ response'.op = "start_scheduler" /\ SCHEDULER_RUNNING = TRUE
           \/ response'.op = "stop_scheduler" /\ SCHEDULER_RUNNING = FALSE)
          => /\ SameProgramState
             /\ response'.raised = FALSE
             /\ response'.status = 200]_vars

\* C13 witness: start_scheduler was served while the flag was true and a
\* loop thread alive
C13_Witness ==
    /\ response.op = "start_scheduler"
    /\ pre.running
    /\ response.status = 200
    /\ Alive(threads) >= 1

\* C14: update_task(n, new_values) leaves SCHEDULED_JOBS, the engine's jobs,
\* the flag, the threads and every other row as they were.
C14_UpdateTouchesOnlyRow ==
    [][\A n \in Names :
        (response'.op = "update_task" /\ response'.name = n)
        => /\ UNCHANGED <<SCHEDULED_JOBS, jobs, SCHEDULER_RUNNING, threads>>
           /\ DOMAIN DB' = DOMAIN DB
           /\ \A m \in DOMAIN DB \ {n} : DB'[m] = DB[m]]_vars

\* C14 witness: update_task has set a scheduled, registered task with a
\* live job to status stopped, and the job is still there
C14_Witness ==
    \E n \in Names :
        /\ Served("update_task", n)
        /\ response.status = 200
        /\ pre.row = "scheduled" /\ pre.reg /\ pre.live
        /\ DB[n].status = "stopped"
        /\ Live(jobs, n) # {}

\* C15: stop_task(n) without a SCHEDULED_JOBS entry for n returns 200 and
\* leaves the Store, SCHEDULED_JOBS and the engine's jobs as they were.
C15_StopUnregisteredIsNoOp ==
    [][\A n \in Names :
        (/\ response'.op = "stop_task" /\ response'.name = n
         /\ n \notin DOMAIN SCHEDULED_JOBS)
        => /\ SameProgramState
           /\ response'.raised = FALSE
           /\ response'.status = 200]_vars

\* C15 witness: stop_task was served for a scheduled row that
\* SCHEDULED_JOBS did not hold, and the row is still scheduled
C15_Witness ==
    \E n \in Names :
        /\ Served("stop_task", n)
        /\ ~pre.reg /\ pre.row = "scheduled"
        /\ response.status = 200
        /\ DB[n].status = "scheduled"

\* every row with status scheduled has a job in the engine
AllScheduledRegistered ==
    \A n \in DbLoadStatus(DB, "scheduled") : Live(jobs, n) # {}

\* C16: when run_pending is called every scheduled row has been registered,
\* and when start_scheduler has returned recovery is complete.
C16_RecoveryBeforeFirstTick ==
    /\ [][response'.op = "run_pending" => AllScheduledRegistered]_vars
    /\ [](response.op = "start_scheduler" => AllScheduledRegistered)

\* C17: at most one run_scheduler thread is alive.
C17_OneLoopThread == Alive(threads) <= 1

\* stop_scheduler has just turned the flag from true to false
StopTookEffect == response.op = "stop_scheduler" /\ pre.running

\* C18: after a stop_scheduler that turned the flag off, a loop thread
\* returns from run_scheduler, and the stop itself leaves every thread
\* where it is (a run_pending in progress is finished).
C18_StoppedLoopExits ==
    /\ StopTookEffect ~> (response.op = "run_scheduler_return")
    /\ [][response'.op = "stop_scheduler" => threads' = threads]_vars

\* the run statistics of a row
RunStats(row) == <<row.num_runs, row.time_run_last_start, row.time_run_last_end>>

\* C19: no create_task on another name, update_task, start_task or stop_task
\* changes num_runs, time_run_last_start or time_run_last_end of a task that
\* stays in the Store; only run completions of the tick loop do.
C19_StatsOwnedByRunCompletion ==
    [][\A n \in DOMAIN DB :
        (/\ response'.op \in {"create_task", "update_task", "start_task", "stop_task"}
         /\ (response'.op = "create_task" => response'.name # n)
         /\ n \in DOMAIN DB')
        => RunStats(DB'[n]) = RunStats(DB[n])]_vars

\* C20: delete_task(n) returns status 200 exactly when the call removed the
\* row of n: 200 also for an existing task without SCHEDULED_JOBS entry, 400
\* for a name without a row.
C20_DeleteStatusAgreesWithEffect ==
    \A n \in Names :
        Served("delete_task", n)
        => (response.status = 200 <=> (pre.row # "none" /\ n \notin DOMAIN DB))

====
